---------------------------- MODULE Spec2Model ----------------------------
(***************************************************************************)
(* Federated statistics round of fed_analytics_app.                        *)
(*                                                                         *)
(*   server_app.py  main()                sampling loop, dispatch, reduce  *)
(*   server_app.py  aggregate_features()  merge of the partial statistics  *)
(*   client_app.py  query()               partial statistics of one node   *)
(*                                                                         *)
(* Numbers.  A Python number is modelled exactly: a record                 *)
(*   [kind |-> "num",  num |-> p, den |-> q]   the rational p/q, q > 0,    *)
(*                                             in lowest terms             *)
(*   [kind |-> "sqrt", num |-> p, den |-> q]   the irrational sqrt(p/q)    *)
(*   [kind |-> "nan",  num |-> 0, den |-> 1]   float NaN (a missing cell)  *)
(* and Python's None is [kind |-> "null", num |-> 0, den |-> 1].           *)
(* Counts (len) stay plain integers, as in the code.                       *)
(***************************************************************************)
EXTENDS Integers, Sequences, FiniteSets, TLC

\* --------------------------------------------------------------- bounds
\* Node ids known to the exchange service are 1..MaxNodes.
MaxNodes == 2
\* A poll taken on its own sees at most MaxAvailable node ids.
MaxAvailable == 3
\* A local CSV file has at most MaxRows rows.
MaxRows == 2

\* server_app.py:22
min_nodes == 1

\* -------------------------------------------------------------- numbers
Num(v) == [kind |-> "num", num |-> v, den |-> 1]
NaN == [kind |-> "nan", num |-> 0, den |-> 1]
Null == [kind |-> "null", num |-> 0, den |-> 1]

Abs(x) == IF x < 0 THEN -x ELSE x

RECURSIVE Gcd(_, _)
Gcd(a, b) == IF b = 0 THEN a ELSE Gcd(b, a % b)

\* The rational p/q (q # 0) in lowest terms with a positive denominator.
Rat(p, q) ==
    LET g == Gcd(Abs(p), Abs(q))
        s == IF q < 0 THEN -1 ELSE 1
    IN  [kind |-> "num", num |-> (s * p) \div g, den |-> (s * q) \div g]

IsNaN(x) == x.kind = "nan"

\* Float arithmetic: NaN is absorbing.
Add(x, y) ==
    IF IsNaN(x) \/ IsNaN(y) THEN NaN
    ELSE Rat(x.num * y.den + y.num * x.den, x.den * y.den)

Sub(x, y) ==
    IF IsNaN(x) \/ IsNaN(y) THEN NaN
    ELSE Rat(x.num * y.den - y.num * x.den, x.den * y.den)

Mul(x, y) ==
    IF IsNaN(x) \/ IsNaN(y) THEN NaN
    ELSE Rat(x.num * y.num, x.den * y.den)

\* x / n for an integer n # 0.
DivInt(x, n) == IF IsNaN(x) THEN NaN ELSE Rat(x.num, x.den * n)

\* "x < 0" of Python: False for NaN.
LessThanZero(x) == (~IsNaN(x)) /\ x.num < 0

\* Largest r with r * r <= n, for n >= 0.
RECURSIVE IsqrtFrom(_, _)
IsqrtFrom(n, r) == IF (r + 1) * (r + 1) > n THEN r ELSE IsqrtFrom(n, r + 1)
Isqrt(n) == IsqrtFrom(n, 0)
IsSquare(n) == Isqrt(n) * Isqrt(n) = n

\* np.sqrt of a number >= 0 (or NaN): rational when the radicand is a square
\* of a rational, otherwise kept as the root of the radicand.
Sqrt(x) ==
    IF IsNaN(x) THEN NaN
    ELSE IF IsSquare(x.num) /\ IsSquare(x.den)
         THEN Rat(Isqrt(x.num), Isqrt(x.den))
         ELSE [kind |-> "sqrt", num |-> x.num, den |-> x.den]

\* ------------------------------------------------------------- datasets
Range(s) == {s[i] : i \in DOMAIN s}

\* Cells of a numeric CSV column as pandas reads them: a number, or NaN for
\* an empty cell.  Listed in the order used to enumerate files.
Cells == <<Num(1), Num(3), NaN>>

\* The second column of a two-column file holds a different cell in every
\* row than the first (its missing cells are in different rows too).
Twin(c) == IF IsNaN(c) THEN Num(1) ELSE IF c.num = 1 THEN Num(3) ELSE NaN

\* Index sequences of length <= MaxRows, nondecreasing: files are taken up
\* to the order of their rows.
RowIndexSeqs ==
    UNION { { s \in [1..n -> 1..Len(Cells)] :
                \A i \in 1..n : \A j \in 1..n : i <= j => s[i] <= s[j] }
            : n \in 0..MaxRows }

\* A DataFrame: its column names and its rows (each a function on columns).
TwoColumnData(s) ==
    [columns |-> {"age", "bmi"},
     rows |-> [i \in 1..Len(s) |-> [c \in {"age", "bmi"} |->
                 IF c = "age" THEN Cells[s[i]] ELSE Twin(Cells[s[i]])]]]

\* A file without the "bmi" column.
AgeOnlyData ==
    [columns |-> {"age"},
     rows |-> <<[c \in {"age"} |-> Num(1)]>>]

Datasets == {TwoColumnData(s) : s \in RowIndexSeqs} \cup {AgeOnlyData}

\* df[feature]
Column(df, feature) == [i \in 1..Len(df.rows) |-> df.rows[i][feature]]

\* builtin sum(series): 0 + s[1] + ... + s[n]
RECURSIVE SumFrom(_, _, _)
SumFrom(series, i, acc) ==
    IF i > Len(series) THEN acc ELSE SumFrom(series, i + 1, Add(acc, series[i]))
Sum(series) == SumFrom(series, 1, Num(0))

\* series ** 2
Squared(series) == [i \in DOMAIN series |-> Mul(series[i], series[i])]

\* --------------------------------------------------- client_app.query
\* Keys f"{feature}_{agg}_sum" etc. are modelled as triples.
MetricsForMean(df, feature) ==
    (<<feature, "mean", "sum">> :> Sum(Column(df, feature)))
    @@ (<<feature, "mean", "count">> :> Len(Column(df, feature)))

MetricsForStd(df, feature) ==
    (<<feature, "std", "sum">> :> Sum(Column(df, feature)))
    @@ (<<feature, "std", "count">> :> Len(Column(df, feature)))
    @@ (<<feature, "std", "sum_sqd">> :> Sum(Squared(Column(df, feature))))

\* The empty dict.
EmptyMetrics == [k \in {} |-> 0]

\* Inner loop over feature_aggregation for one feature; a later assignment
\* to a key replaces an earlier one.
RECURSIVE QueryMethods(_, _, _, _, _)
QueryMethods(df, feature, feature_aggregation, j, metrics) ==
    IF j > Len(feature_aggregation) THEN metrics
    ELSE LET agg == feature_aggregation[j]
             next == IF agg = "mean" THEN MetricsForMean(df, feature) @@ metrics
                     ELSE IF agg = "std" THEN MetricsForStd(df, feature) @@ metrics
                     ELSE metrics
         IN  QueryMethods(df, feature, feature_aggregation, j + 1, next)

\* Outer loop over selected_features; raises at the first absent feature.
RECURSIVE QueryFeatures(_, _, _, _, _)
QueryFeatures(df, selected_features, feature_aggregation, i, metrics) ==
    IF i > Len(selected_features) THEN [raised |-> FALSE, metrics |-> metrics]
    ELSE IF selected_features[i] \notin df.columns
         THEN [raised |-> TRUE, metrics |-> EmptyMetrics]
         ELSE QueryFeatures(df, selected_features, feature_aggregation, i + 1,
                  QueryMethods(df, selected_features[i], feature_aggregation, 1, metrics))

Query(df, selected_features, feature_aggregation) ==
    QueryFeatures(df, selected_features, feature_aggregation, 1, EmptyMetrics)

\* ------------------------------------------ server_app.aggregate_features
\* A Message: a reply of node src; content["query_results"] is its metrics.
OkMessage(src, metrics) == [src |-> src, error |-> FALSE, query_results |-> metrics]
ErrorMessage(src) == [src |-> src, error |-> TRUE, query_results |-> EmptyMetrics]

\* message.has_error()
HasError(message) == message.error

KnownMethods == {"mean", "std"}

\* _initialize_aggregation_stats: one dict per feature name, one entry per
\* recognised method name.
InitializeAggregationStats(selected_features, feature_aggregation) ==
    [f \in Range(selected_features) |->
        [m \in Range(feature_aggregation) \cap KnownMethods |->
            IF m = "mean"
            THEN [sum |-> Num(0), count |-> 0]
            ELSE [sum |-> Num(0), count |-> 0, sum_sqd |-> Num(0)]]]

\* _accumulate_statistics
AccumulateStatistics(aggregated_stats, results, feature, agg_method) ==
    IF agg_method = "mean"
    THEN [aggregated_stats EXCEPT ![feature]["mean"] =
            [sum |-> Add(@.sum, results[<<feature, "mean", "sum">>]),
             count |-> @.count + results[<<feature, "mean", "count">>]]]
    ELSE IF agg_method = "std"
    THEN [aggregated_stats EXCEPT ![feature]["std"] =
            [sum |-> Add(@.sum, results[<<feature, "std", "sum">>]),
             count |-> @.count + results[<<feature, "std", "count">>],
             sum_sqd |-> Add(@.sum_sqd, results[<<feature, "std", "sum_sqd">>])]]
    ELSE aggregated_stats

\* The nested loops "for feature in selected_features: for agg_method in
\* feature_aggregation", flattened in iteration order.
RECURSIVE PairsFrom(_, _, _, _)
PairsFrom(selected_features, feature_aggregation, i, j) ==
    IF i > Len(selected_features) THEN <<>>
    ELSE IF j > Len(feature_aggregation)
         THEN PairsFrom(selected_features, feature_aggregation, i + 1, 1)
         ELSE <<[feature |-> selected_features[i], agg_method |-> feature_aggregation[j]]>>
              \o PairsFrom(selected_features, feature_aggregation, i, j + 1)
RequestedPairs(selected_features, feature_aggregation) ==
    PairsFrom(selected_features, feature_aggregation, 1, 1)

\* Lines 184-188 for one valid message.
RECURSIVE AccumulateMessage(_, _, _, _)
AccumulateMessage(aggregated_stats, results, pairs, k) ==
    IF k > Len(pairs) THEN aggregated_stats
    ELSE AccumulateMessage(
             AccumulateStatistics(aggregated_stats, results,
                                  pairs[k].feature, pairs[k].agg_method),
             results, pairs, k + 1)

\* Lines 176-188: the loop over the messages, skipping error replies.
RECURSIVE AccumulateAll(_, _, _, _)
AccumulateAll(acc, messages, pairs, n) ==
    IF n > Len(messages) THEN acc
    ELSE IF HasError(messages[n]) THEN AccumulateAll(acc, messages, pairs, n + 1)
    ELSE AccumulateAll(
             [aggregated_stats |-> AccumulateMessage(acc.aggregated_stats,
                                       messages[n].query_results, pairs, 1),
              valid_message_count |-> acc.valid_message_count + 1],
             messages, pairs, n + 1)

\* A variant that also refuses the mean of one sample.
InsufficientForMeanStrict(count) == count <= 1
\* Line 144: the mean of no sample is refused.
InsufficientForMean(count) == count = 0

\* Line 152: the sample standard deviation needs two samples.
InsufficientForStd(count) == count <= 1

\* Lines 163-165.
ClampVariance(variance) == IF LessThanZero(variance) THEN Num(0) ELSE variance

\* _compute_final_statistics: the value returned, or raised = TRUE for a
\* ValueError.
ComputeFinalStatistics(aggregated_stats, feature, agg_method) ==
    IF agg_method = "mean"
    THEN LET stats == aggregated_stats[feature]["mean"]
         IN  IF InsufficientForMean(stats.count)
             THEN [raised |-> TRUE, value |-> Null]
             ELSE [raised |-> FALSE, value |-> DivInt(stats.sum, stats.count)]
    ELSE IF agg_method = "std"
    THEN LET stats == aggregated_stats[feature]["std"]
         IN  IF InsufficientForStd(stats.count)
             THEN [raised |-> TRUE, value |-> Null]
             ELSE LET mean == DivInt(stats.sum, stats.count)
                      variance == DivInt(Sub(stats.sum_sqd,
                                             Mul(Num(stats.count), Mul(mean, mean))),
                                         stats.count - 1)
                  IN  [raised |-> FALSE, value |-> Sqrt(ClampVariance(variance))]
    ELSE [raised |-> TRUE, value |-> Null]

\* Lines 198-204: a ValueError becomes None.
FinalEntry(aggregated_stats, feature, agg_method) ==
    LET r == ComputeFinalStatistics(aggregated_stats, feature, agg_method)
    IN  IF r.raised THEN Null ELSE r.value

\* A variant that leaves unrecognised methods out of the output.
OutputMethodsKnownOnly(feature_aggregation) == Range(feature_aggregation) \cap KnownMethods
\* The keys final_stats[feature] ends with (lines 197-204).
OutputMethods(feature_aggregation) == Range(feature_aggregation)

\* Lines 194-204.
FinalStatistics(aggregated_stats, selected_features, feature_aggregation) ==
    [f \in Range(selected_features) |->
        [m \in OutputMethods(feature_aggregation) |->
            FinalEntry(aggregated_stats, f, m)]]

\* A variant that asks for two valid messages.
NoValidMessagesOffByOne(valid_message_count) == valid_message_count <= 1
\* Line 190.
NoValidMessages(valid_message_count) == valid_message_count = 0

\* The dict returned when the call raises (nothing is returned).
NoStatistics == [f \in {} |-> 0]

\* aggregate_features: raised = TRUE for "No valid messages received from
\* clients"; aggregated_stats and valid_message_count are its locals at the
\* point it returns or raises.
AggregateFeatures(messages, selected_features, feature_aggregation) ==
    LET acc == AccumulateAll(
                   [aggregated_stats |->
                        InitializeAggregationStats(selected_features, feature_aggregation),
                    valid_message_count |-> 0],
                   messages,
                   RequestedPairs(selected_features, feature_aggregation), 1)
    IN  IF NoValidMessages(acc.valid_message_count)
        THEN [raised |-> TRUE,
              aggregated_stats |-> acc.aggregated_stats,
              valid_message_count |-> acc.valid_message_count,
              final_stats |-> NoStatistics]
        ELSE [raised |-> FALSE,
              aggregated_stats |-> acc.aggregated_stats,
              valid_message_count |-> acc.valid_message_count,
              final_stats |-> FinalStatistics(acc.aggregated_stats,
                                              selected_features, feature_aggregation)]

\* Partial statistics constructed by hand rather than computed from rows,
\* as a test of the variance floor does: for every requested pair a sum of 3
\* over 2 samples with a sum of squares of 4 (what cancellation in the
\* squares leaves behind), which implies a variance of -1/2.
RECURSIVE ConstructedFrom(_, _)
ConstructedFrom(pairs, k) ==
    IF k > Len(pairs) THEN EmptyMetrics
    ELSE LET f == pairs[k].feature
             m == pairs[k].agg_method
             rest == ConstructedFrom(pairs, k + 1)
         IN  IF m = "mean"
             THEN (<<f, m, "sum">> :> Num(3)) @@ (<<f, m, "count">> :> 2) @@ rest
             ELSE IF m = "std"
             THEN (<<f, m, "sum">> :> Num(3)) @@ (<<f, m, "count">> :> 2)
                  @@ (<<f, m, "sum_sqd">> :> Num(4)) @@ rest
             ELSE rest
ConstructedMetrics(selected_features, feature_aggregation) ==
    ConstructedFrom(RequestedPairs(selected_features, feature_aggregation), 1)

\* ------------------------------------------------------------ the round
NodeIds == 1..MaxNodes

\* A float >= 0 is held exactly in binary: whole is its integer part and
\* bits are its binary places (bits[k] is worth 2^-k).  An IEEE double has
\* MantissaBits significant bits.
MantissaBits == 53

Double(whole, bits) == [whole |-> whole, bits |-> bits]

\* The double 0.3333333333333333: 0.0101...01 in binary, 54 places.
DoubleThird == Double(0, [k \in 1..54 |-> IF k % 2 = 0 THEN 1 ELSE 0])

\* The double 0.29.
Double029 ==
    Double(0, <<0,1,0,0,1,0,1,0,0,0,1,1,1,1,0,1,0,1,1,1,0,0,0,0,1,0,1,
                0,0,0,1,1,1,1,0,1,0,1,1,1,0,0,0,0,1,0,1,0,0,0,1,1,1,1>>)

\* fraction-sample, a float in (0, 1]: 0.25, 0.5, 0.75, 1.0, 0.29 and
\* 0.3333333333333333.
Fractions ==
    {Double(0, <<0, 1>>), Double(0, <<1>>), Double(0, <<1, 1>>), Double(1, <<>>),
     Double029, DoubleThird}

\* The integer whose binary digits are bits[a..b].
RECURSIVE Digits(_, _, _)
Digits(bits, a, b) ==
    IF a > b THEN 0
    ELSE IF a = b THEN bits[a]
    ELSE Digits(bits, a, (a + b) \div 2) * 2 ^ (b - (a + b) \div 2)
         + Digits(bits, (a + b) \div 2 + 1, b)

\* The carries are worked out StepPlaces places at a time.
StepPlaces == 16

\* The carry that n * 0.bits sends into place k from the places after it
\* (place 0 is the units): the integer part of n * 0.bits[k+1..].
RECURSIVE CarryInto(_, _, _)
CarryInto(bits, n, k) ==
    IF k >= Len(bits) THEN 0
    ELSE IF k + StepPlaces >= Len(bits)
    THEN (n * Digits(bits, k + 1, Len(bits))) \div 2 ^ (Len(bits) - k)
    ELSE (n * Digits(bits, k + 1, k + StepPlaces) + CarryInto(bits, n, k + StepPlaces))
         \div 2 ^ StepPlaces

\* The real number n * x for an integer n >= 0, exactly: each binary place
\* of x is multiplied by n, and the carries run up to the integer part.
ExactProduct(n, x) ==
    Double(n * x.whole + CarryInto(x.bits, n, 0),
           [k \in 1..Len(x.bits) |-> (n * x.bits[k] + CarryInto(x.bits, n, k)) % 2])

\* The number of binary digits of an integer i >= 0.
RECURSIVE BitLength(_)
BitLength(i) == IF i = 0 THEN 0 ELSE 1 + BitLength(i \div 2)

\* The place of the first 1 among the binary places (0 when there is none).
FirstOne(bits) ==
    IF \E k \in DOMAIN bits : bits[k] = 1
    THEN CHOOSE k \in DOMAIN bits : bits[k] = 1 /\ \A j \in 1..(k - 1) : bits[j] = 0
    ELSE 0

\* The last binary place a double keeps of a real x >= 0 below
\* 2^MantissaBits.
LastPlace(x) ==
    IF x.whole > 0 THEN MantissaBits - BitLength(x.whole)
    ELSE FirstOne(x.bits) + MantissaBits - 1

\* int(x rounded to the nearest double, ties to even): the binary places up
\* to the last one are kept; the rest round up when they exceed half a unit
\* of that place, or equal it and the kept part is odd; rounding up a kept
\* part of ones only carries into the integer part.
RoundedWhole(x, last) ==
    IF Len(x.bits) <= last THEN x.whole
    ELSE LET guard == x.bits[last + 1]
             sticky == \E k \in (last + 2)..Len(x.bits) : x.bits[k] = 1
             odd == IF last = 0 THEN x.whole % 2 = 1 ELSE x.bits[last] = 1
             up == guard = 1 /\ (sticky \/ odd)
         IN  IF up /\ \A k \in 1..last : x.bits[k] = 1
             THEN x.whole + 1
             ELSE x.whole

\* selected-features and feature-aggregation after split(",").
SelectedFeaturesChoices == {<<"age">>, <<"age", "bmi">>, <<"age", "age">>}
FeatureAggregationChoices ==
    {<<"mean", "std">>, <<"mean", "median">>, <<"std", "std">>}

\* The files a node of a whole round may hold.
RoundFiles == {TwoColumnData(<<1, 2>>), AgeOnlyData}

\* Sequences without repetition of all members of S.
Orderings(S) ==
    {s \in [1..Cardinality(S) -> S] : \A i, j \in DOMAIN s : s[i] = s[j] => i = j}

\* random.sample(population, k): k members, no member twice.
RandomSample(population, k) ==
    {s \in [1..k -> population] : \A i, j \in DOMAIN s : s[i] = s[j] => i = j}

\* Line 46: int(len(all_node_ids) * fraction_sample): the float product,
\* rounded to a double, then truncated.
NumToSample(n, fraction) ==
    CHOOSE r \in {RoundedWhole(product, LastPlace(product)) :
                   product \in {ExactProduct(n, fraction)}} : TRUE

\* A variant without the threshold.
EnoughNodesAlways(ids) == Cardinality(ids) >= 0
\* Lines 42 and 44: the threshold of the waiting loop.
EnoughNodes(ids) == Cardinality(ids) >= min_nodes

\* Line 74: len(list(replies)) walks the iterable; one that can be walked
\* once only is empty afterwards.
AfterCounting(returned, only_once) == IF only_once THEN <<>> ELSE returned

\* The reply of node n to message m when its query runs on file: the
\* runtime turns an exception of the ClientApp into an error reply.
ClientReply(n, file, m) ==
    LET q == Query(file, m.selected_features, m.feature_aggregation)
    IN  IF q.raised THEN ErrorMessage(n) ELSE OkMessage(n, q.metrics)

VARIABLES
    pc,                   \* where main() (or the direct call) stands
    fraction_sample,      \* run_config["fraction-sample"]
    selected_features,    \* run_config["selected-features"].split(",")
    feature_aggregation,  \* run_config["feature-aggregation"].split(",")
    avail,                \* node ids the exchange service knows now
    all_node_ids,         \* result of the last grid.get_node_ids()
    node_ids,             \* the sample
    messages,             \* the messages built for the sample
    df,                   \* node id -> the file its query read
    replies,              \* what send_and_receive returned
    one_shot,             \* whether that iterable can be walked only once
    waited,               \* whether "Waiting for nodes to connect..." was logged
    passed,               \* what aggregate_features iterated over
    aggregated_stats,     \* aggregate_features' reduced totals
    valid_message_count,  \* aggregate_features' count of Ok replies
    final_stats           \* the GlobalStatistics returned

vars == <<pc, fraction_sample, selected_features, feature_aggregation, avail,
          all_node_ids, node_ids, messages, df, replies, one_shot, waited,
          passed, aggregated_stats, valid_message_count, final_stats>>

config == <<fraction_sample, selected_features, feature_aggregation>>
outputs == <<passed, aggregated_stats, valid_message_count, final_stats>>

NoFiles == [n \in {} |-> 0]

\* main() up to line 41.
Init ==
    /\ pc = "sampling"
    /\ fraction_sample \in Fractions
    /\ selected_features \in SelectedFeaturesChoices
    /\ feature_aggregation \in FeatureAggregationChoices
    /\ avail = {}
    /\ all_node_ids = {}
    /\ node_ids = <<>>
    /\ messages = <<>>
    /\ df = NoFiles
    /\ replies = <<>>
    /\ one_shot = FALSE
    /\ waited = FALSE
    /\ passed = <<>>
    /\ aggregated_stats = NoStatistics
    /\ valid_message_count = 0
    /\ final_stats = NoStatistics

\* A node connects to the exchange service while the coordinator samples.
Connect(n) ==
    /\ pc = "sampling"
    /\ n \notin avail
    /\ avail' = avail \cup {n}
    /\ UNCHANGED <<pc, config, all_node_ids, node_ids, messages, df, replies,
                   one_shot, waited, outputs>>

\* A node leaves it.
Disconnect(n) ==
    /\ pc = "sampling"
    /\ n \in avail
    /\ avail' = avail \ {n}
    /\ UNCHANGED <<pc, config, all_node_ids, node_ids, messages, df, replies,
                   one_shot, waited, outputs>>

\* One iteration of the loop of lines 42-50.
Poll ==
    /\ pc = "sampling"
    /\ all_node_ids' = avail
    /\ IF EnoughNodes(avail)
       THEN /\ node_ids' \in RandomSample(avail,
                                 NumToSample(Cardinality(avail), fraction_sample))
            /\ pc' = "dispatching"
            /\ waited' = waited
       ELSE /\ node_ids' = node_ids
            /\ pc' = "sampling"
            /\ waited' = TRUE
    /\ UNCHANGED <<config, avail, messages, df, replies, one_shot, outputs>>

\* Lines 54-73: one message per sampled node, handed to send_and_receive.
Dispatch ==
    /\ pc = "dispatching"
    /\ messages' = [i \in 1..Len(node_ids) |->
                       [dst_node_id |-> node_ids[i],
                        selected_features |-> selected_features,
                        feature_aggregation |-> feature_aggregation]]
    /\ pc' = "awaiting"
    /\ UNCHANGED <<config, avail, all_node_ids, node_ids, df, replies, one_shot,
                   waited, outputs>>

\* send_and_receive returns: replies to a subset of the messages, in any
\* order; a reply is an error when the service could not get one (fault) or
\* when the node's query raised.
Exchange ==
    /\ pc = "awaiting"
    /\ \E answered \in SUBSET (1..Len(messages)) :
       \E faults \in SUBSET answered :
       \E order \in Orderings(answered) :
       \E files \in [answered \ faults -> RoundFiles] :
          /\ replies' = [i \in 1..Len(order) |->
                            IF order[i] \in faults
                            THEN ErrorMessage(messages[order[i]].dst_node_id)
                            ELSE ClientReply(messages[order[i]].dst_node_id,
                                             files[order[i]], messages[order[i]])]
          /\ df' = [n \in {messages[k].dst_node_id : k \in answered \ faults} |->
                       files[CHOOSE k \in answered \ faults :
                                 messages[k].dst_node_id = n]]
    /\ one_shot' \in BOOLEAN
    /\ pc' = "received"
    /\ UNCHANGED <<config, avail, all_node_ids, node_ids, messages, waited,
                   outputs>>

\* Lines 74-85: count the replies for the log, reduce them, print.
Reduce ==
    /\ pc = "received"
    /\ LET r == AggregateFeatures(AfterCounting(replies, one_shot),
                                  selected_features, feature_aggregation)
       IN  /\ passed' = AfterCounting(replies, one_shot)
           /\ aggregated_stats' = r.aggregated_stats
           /\ valid_message_count' = r.valid_message_count
           /\ final_stats' = r.final_stats
           /\ pc' = IF r.raised THEN "failed" ELSE "done"
    /\ UNCHANGED <<config, avail, all_node_ids, node_ids, messages, df, replies,
                   one_shot, waited>>

Next ==
    \/ \E n \in NodeIds : Connect(n)
    \/ \E n \in NodeIds : Disconnect(n)
    \/ Poll
    \/ Dispatch
    \/ Exchange
    \/ Reduce

Spec == Init /\ [][Next]_vars

\* The loop of lines 42-50 runs on: each sleep returns and the next poll
\* happens.
FairSpec == Spec /\ WF_vars(Poll)

\* ------------------------------------------- aggregate_features, called
\* directly on up to MaxNodes replies: reply i is an error reply, an Ok
\* reply with constructed statistics, or what node i's query on some file
\* produced (df holds the files of the latter).
InitAggregate ==
    /\ pc = "aggregate_call"
    /\ fraction_sample = Double(1, <<>>)
    /\ selected_features \in SelectedFeaturesChoices
    /\ feature_aggregation \in FeatureAggregationChoices
    /\ avail = {}
    /\ all_node_ids = {}
    /\ node_ids = <<>>
    /\ messages = <<>>
    /\ \E k \in 0..MaxNodes :
       \E faults \in SUBSET (1..k) :
       \E constructed \in SUBSET ((1..k) \ faults) :
       \E files \in [(1..k) \ (faults \cup constructed) -> Datasets] :
          /\ df = files
          /\ replies = [i \in 1..k |->
                           IF i \in faults THEN ErrorMessage(i)
                           ELSE IF i \in constructed
                           THEN OkMessage(i, ConstructedMetrics(selected_features,
                                                                feature_aggregation))
                           ELSE ClientReply(i, files[i],
                                    [selected_features |-> selected_features,
                                     feature_aggregation |-> feature_aggregation])]
    /\ one_shot = FALSE
    /\ waited = FALSE
    /\ passed = <<>>
    /\ aggregated_stats = NoStatistics
    /\ valid_message_count = 0
    /\ final_stats = NoStatistics

CallAggregate ==
    /\ pc = "aggregate_call"
    /\ LET r == AggregateFeatures(replies, selected_features, feature_aggregation)
       IN  /\ passed' = replies
           /\ aggregated_stats' = r.aggregated_stats
           /\ valid_message_count' = r.valid_message_count
           /\ final_stats' = r.final_stats
           /\ pc' = IF r.raised THEN "aggregate_raised" ELSE "aggregate_returned"
    /\ UNCHANGED <<config, avail, all_node_ids, node_ids, messages, df, replies,
                   one_shot, waited>>

AggregateSpec == InitAggregate /\ [][CallAggregate]_vars

\* ------------------------------------------- one poll of main, taken on
\* its own: any set of up to MaxAvailable node ids is connected, and the
\* poll of lines 41-50 samples from it.
InitSample ==
    /\ pc = "sampling"
    /\ fraction_sample \in Fractions
    /\ selected_features = <<"age">>
    /\ feature_aggregation = <<"mean", "std">>
    /\ avail \in SUBSET (1..MaxAvailable)
    /\ all_node_ids = {}
    /\ node_ids = <<>>
    /\ messages = <<>>
    /\ df = NoFiles
    /\ replies = <<>>
    /\ one_shot = FALSE
    /\ waited = FALSE
    /\ passed = <<>>
    /\ aggregated_stats = NoStatistics
    /\ valid_message_count = 0
    /\ final_stats = NoStatistics

SampleSpec == InitSample /\ [][Poll]_vars

\* ================================================================ claims
\* Helpers of the statements below.
Called == pc \in {"aggregate_returned", "aggregate_raised"}
Returned == pc = "aggregate_returned"
OkReplies(msgs) == {i \in DOMAIN msgs : ~msgs[i].error}
RequestedFeatures == Range(selected_features)
RequestedKnownMethods == Range(feature_aggregation) \cap KnownMethods
HasRepetition(s) == \E i, j \in DOMAIN s : i # j /\ s[i] = s[j]

\* The sum over the Ok replies of one entry of their partial statistics
\* (zero is the number 0 or the count 0; plus adds two entries).
RECURSIVE ReplyTotal(_, _, _, _)
ReplyTotal(msgs, n, key, isCount) ==
    IF n = 0 THEN (IF isCount THEN 0 ELSE Num(0))
    ELSE IF msgs[n].error THEN ReplyTotal(msgs, n - 1, key, isCount)
    ELSE IF isCount
         THEN ReplyTotal(msgs, n - 1, key, isCount) + msgs[n].query_results[key]
         ELSE Add(ReplyTotal(msgs, n - 1, key, isCount), msgs[n].query_results[key])

\* Whether every Ok reply was computed by a node from its file.
AllFromFiles(msgs) == \A i \in OkReplies(msgs) : msgs[i].src \in DOMAIN df

\* The rows of the Ok nodes put into one column of one file.
RECURSIVE UnionColumn(_, _, _)
UnionColumn(msgs, n, feature) ==
    IF n = 0 THEN <<>>
    ELSE IF msgs[n].error \/ msgs[n].src \notin DOMAIN df
         THEN UnionColumn(msgs, n - 1, feature)
         ELSE UnionColumn(msgs, n - 1, feature) \o Column(df[msgs[n].src], feature)

\* The square of a final value that is a number.
SquareOf(x) == IF x.kind = "sqrt" THEN Rat(x.num, x.den) ELSE Mul(x, x)

\* value = s / n, stated without the division.
IsQuotient(value, s, n) ==
    IF IsNaN(s) THEN IsNaN(value)
    ELSE value.kind = "num" /\ value.num * s.den * n = s.num * value.den

\* value = sqrt(max(0, (q - n * (s/n)^2) / (n - 1))), stated without the
\* divisions and the root: value >= 0 and value^2 * n * (n - 1) =
\* max(0, n * q - s^2).
IsSampleStd(value, s, q, n) ==
    IF IsNaN(s) \/ IsNaN(q) THEN IsNaN(value)
    ELSE /\ value.kind \in {"num", "sqrt"}
         /\ value.num >= 0
         /\ LET radicand == Sub(Mul(Num(n), q), Mul(s, s))
                floor0 == IF radicand.num < 0 THEN Num(0) ELSE radicand
            IN  Mul(SquareOf(value), Num(n * (n - 1))) = floor0

\* C1: for every requested (feature, method) with method mean or std, the
\* totals aggregate_features reduces equal the component-wise sum of the
\* partial statistics of exactly the Ok replies, and equal the statistics of
\* the union of the rows of the Ok nodes taken as one node (as does the mean).
C1_TotalsAreAdditive ==
    Called =>
      \A f \in RequestedFeatures : \A m \in RequestedKnownMethods :
        LET t == aggregated_stats[f][m]
            u == UnionColumn(replies, Len(replies), f)
        IN  /\ t.sum = ReplyTotal(replies, Len(replies), <<f, m, "sum">>, FALSE)
            /\ t.count = ReplyTotal(replies, Len(replies), <<f, m, "count">>, TRUE)
            /\ m = "std" =>
                 t.sum_sqd = ReplyTotal(replies, Len(replies), <<f, m, "sum_sqd">>, FALSE)
            /\ AllFromFiles(replies) =>
                 /\ t.sum = Sum(u)
                 /\ t.count = Len(u)
                 /\ m = "std" => t.sum_sqd = Sum(Squared(u))
                 /\ (Returned /\ m = "mean" /\ Len(u) > 0) =>
                      final_stats[f][m] = DivInt(Sum(u), Len(u))

\* C2: aggregate_features raises NoValidReplies exactly when no reply is Ok
\* (all are errors, or there is none); with one Ok reply or more it returns
\* a GlobalStatistics, whatever the other replies are.
C2_FailsIffNoOkReply ==
    Called =>
      /\ (pc = "aggregate_raised") <=> (OkReplies(replies) = {})
      /\ (pc = "aggregate_returned") <=> (OkReplies(replies) # {})
      /\ Returned => DOMAIN final_stats = RequestedFeatures
      /\ valid_message_count = Cardinality(OkReplies(replies))

\* A direct call that returned although one of its replies was an error.
C2_Witness ==
    /\ Returned
    /\ \E i \in DOMAIN replies : replies[i].error
    /\ \E i \in DOMAIN replies : ~replies[i].error

\* C3: every reduced std entry with total_count > 1 is
\* sqrt(max(0, (sum_sqd - count * mean^2) / (count - 1))), and is never
\* null or NaN.
C3_StdIsClampedRoot ==
    Returned =>
      \A f \in RequestedFeatures :
        ("std" \in RequestedKnownMethods /\ aggregated_stats[f]["std"].count > 1) =>
          LET t == aggregated_stats[f]["std"]
              v == final_stats[f]["std"]
          IN  /\ v.kind \notin {"null", "nan"}
              /\ IsSampleStd(v, t.sum, t.sum_sqd, t.count)

\* C4: a mean entry with total_count = 0 and a std entry with total_count <= 1
\* are null; every other requested entry of the round has the value its own
\* totals give; the call returns.
C4_InsufficientDataIsolated ==
    Returned =>
      \A f \in RequestedFeatures : \A m \in RequestedKnownMethods :
        LET t == aggregated_stats[f][m]
            v == final_stats[f][m]
        IN  /\ (m = "mean" /\ t.count = 0) => v = Null
            /\ (m = "std" /\ t.count <= 1) => v = Null
            /\ (m = "mean" /\ t.count > 0) => IsQuotient(v, t.sum, t.count)
            /\ (m = "std" /\ t.count > 1) => IsSampleStd(v, t.sum, t.sum_sqd, t.count)

\* A round whose std entry is null for want of samples while its mean entry
\* is a number.
C4_Witness ==
    /\ Returned
    /\ \E f \in RequestedFeatures :
         /\ {"mean", "std"} \subseteq RequestedKnownMethods
         /\ final_stats[f]["std"] = Null
         /\ aggregated_stats[f]["std"].count = 1
         /\ final_stats[f]["mean"].kind = "num"

UnknownRequested == Range(feature_aggregation) \ KnownMethods # {}

\* What C5 says of the nodes, the call and the mean entries: a node whose
\* file holds the requested features replies Ok, the call returns when a
\* reply is Ok, and each mean entry is the sum over the count of the Ok
\* replies (of the Ok nodes' rows, when files are behind them).
C5_Common ==
    /\ \A i \in DOMAIN replies :
         (replies[i].src \in DOMAIN df
            /\ RequestedFeatures \subseteq df[replies[i].src].columns)
         => ~replies[i].error
    /\ (Called /\ OkReplies(replies) # {}) => Returned
    /\ Returned =>
         \A f \in RequestedFeatures :
           "mean" \in RequestedKnownMethods =>
             LET u == UnionColumn(replies, Len(replies), f)
                 s == ReplyTotal(replies, Len(replies), <<f, "mean", "sum">>, FALSE)
                 n == ReplyTotal(replies, Len(replies), <<f, "mean", "count">>, TRUE)
             IN  /\ IF n = 0 THEN final_stats[f]["mean"] = Null
                    ELSE IsQuotient(final_stats[f]["mean"], s, n)
                 /\ (AllFromFiles(replies) /\ Len(u) > 0) =>
                      final_stats[f]["mean"] = DivInt(Sum(u), Len(u))

\* C5 as stated: with an unrecognised method beside "mean", the nodes reply
\* Ok, the call returns, the mean entries are as usual, and the
\* unrecognised method is omitted from the output.
C5_UnknownMethodOmitted ==
    UnknownRequested =>
      /\ C5_Common
      /\ Returned =>
           \A f \in RequestedFeatures :
             DOMAIN final_stats[f] \cap (Range(feature_aggregation) \ KnownMethods) = {}

\* C5 as amended: the unrecognised method is an entry of every feature of
\* the output, and that entry is null.
C5_UnknownMethodIsNull ==
    UnknownRequested =>
      /\ C5_Common
      /\ Returned =>
           \A f \in RequestedFeatures :
             \A m \in Range(feature_aggregation) \ KnownMethods :
               m \in DOMAIN final_stats[f] /\ final_stats[f][m] = Null

\* A round with "median" requested that returned a mean over some rows.
C5_Witness ==
    /\ Returned
    /\ "median" \in Range(feature_aggregation)
    /\ \E f \in RequestedFeatures : final_stats[f]["mean"].kind = "num"

NonMissing(series) == Cardinality({i \in DOMAIN series : ~IsNaN(series[i])})

\* C6: in every Ok reply of a node, the count of a (feature, method) pair is
\* the number of non-missing rows of the feature in the node's file.
C6_CountIsNonMissingRows ==
    \A i \in DOMAIN replies :
      (~replies[i].error /\ replies[i].src \in DOMAIN df) =>
        \A f \in RequestedFeatures : \A m \in RequestedKnownMethods :
          replies[i].query_results[<<f, m, "count">>]
            = NonMissing(Column(df[replies[i].src], f))

\* C7: once the sampler has returned, the sample holds distinct members of
\* the node ids the last poll saw, that poll saw min_nodes or more, and the
\* sample's size is floor(|all_node_ids| * fraction), the integer part of
\* the real product.
C7_SampleIsFloorFraction ==
    pc \in {"dispatching", "awaiting", "received", "done", "failed"} =>
      /\ Range(node_ids) \subseteq all_node_ids
      /\ \A i, j \in DOMAIN node_ids : node_ids[i] = node_ids[j] => i = j
      /\ Cardinality(all_node_ids) >= min_nodes
      /\ Len(node_ids) = ExactProduct(Cardinality(all_node_ids), fraction_sample).whole

\* C8: while the polls see fewer than min_nodes ids the coordinator stays in
\* Sampling, has sent nothing and has not failed; a poll that sees min_nodes
\* or more leaves Sampling; nothing is dispatched before such a poll; and if
\* availability reaches min_nodes for good, Sampling is left.
C8_BlocksUntilEnoughNodes ==
    /\ [](pc = "sampling" => (messages = <<>> /\ replies = <<>>))
    /\ [](pc \in {"dispatching", "awaiting", "received", "done", "failed"}
            => Cardinality(all_node_ids) >= min_nodes)
    /\ [][(pc = "sampling" /\ Cardinality(avail) < min_nodes) => pc' = "sampling"]_vars
    /\ [][(pc = "sampling" /\ avail' = avail /\ Cardinality(avail) >= min_nodes)
            => pc' = "dispatching"]_vars
    /\ (<>[](Cardinality(avail) >= min_nodes)) => <>(pc # "sampling")

\* The coordinator waited through a poll that saw too few nodes and has
\* since left Sampling, with nothing sent yet.
C8_Witness ==
    /\ pc = "dispatching"
    /\ waited
    /\ messages = <<>>

\* C9: the replies aggregate_features gets are the replies send_and_receive
\* returned, so a round with an Ok reply does not fail.
C9_RepliesReachAggregator ==
    pc \in {"done", "failed"} =>
      /\ passed = replies
      /\ OkReplies(replies) # {} => pc = "done"

\* s without its repeated members (the first of each kept).
RECURSIVE Dedup(_)
Dedup(s) ==
    IF s = <<>> THEN <<>>
    ELSE LET front == Dedup(SubSeq(s, 1, Len(s) - 1))
         IN  IF s[Len(s)] \in Range(front) THEN front ELSE Append(front, s[Len(s)])

\* The replies the same nodes give to the request without repetitions.
RepliesWithoutRepetition ==
    [i \in DOMAIN replies |->
        IF replies[i].error THEN replies[i]
        ELSE IF replies[i].src \notin DOMAIN df
        THEN OkMessage(replies[i].src,
                 ConstructedMetrics(Dedup(selected_features), Dedup(feature_aggregation)))
        ELSE ClientReply(replies[i].src, df[replies[i].src],
                 [selected_features |-> Dedup(selected_features),
                  feature_aggregation |-> Dedup(feature_aggregation)])]

\* C10: the totals, the mean and the std of a (feature, method) pair are
\* those of the request without repeated features and methods.
C10_RepetitionChangesNothing ==
    Called =>
      LET r == AggregateFeatures(RepliesWithoutRepetition,
                                 Dedup(selected_features), Dedup(feature_aggregation))
      IN  /\ aggregated_stats = r.aggregated_stats
          /\ final_stats = r.final_stats

=============================================================================
